---- MODULE Spec2Model ----
(***************************************************************************)
(* Model of src/app/api/refine/route.js: the text chunker                  *)
(* (splitIntoChunks), the POST handler with its process-wide rate-limit    *)
(* counter, the concurrent chunk dispatch (Promise.all) and the            *)
(* reassembly of the refined chunks.                                       *)
(*                                                                         *)
(* Strings are sequences of one-character strings.  The chunker works on   *)
(* "cells" <<ch, pos>>: ch is the character and pos its 1-based offset in  *)
(* the input text (0 for a character the chunker inserts itself).  The     *)
(* code never looks at pos; it is carried along so that properties about   *)
(* order and about lost characters can be stated exactly.                  *)
(***************************************************************************)
EXTENDS Integers, Sequences, FiniteSets, TLC

VARIABLES
  text,          \* chunker run: the input string
  chunks,        \* chunker run: the value splitIntoChunks returned
  phase,         \* chunker run: "input", then "chunked" ("off" when only the handler runs)
  apiKey,        \* process.env.GEMINI_API_KEY is set
  requestCount,  \* route.js:124
  windowStart,   \* route.js:125
  now,           \* Date.now()
  pc,            \* per POST invocation: "idle", "json", "await", "done"
  body,          \* per invocation: the request body
  reqChunks,     \* per invocation: const chunks (route.js:173)
  calls,         \* per invocation: the promise of each chunks.map callback
  values,        \* per invocation: the values array Promise.all fills
  response,      \* per invocation: the NextResponse returned
  arrived,       \* history: number of POST invocations so far
  accepted       \* history: invocations that passed the rate check in the current window

chunkVars == <<text, chunks, phase>>
limitVars == <<requestCount, windowStart>>
reqVars == <<pc, body, reqChunks, calls, values, response>>
histVars == <<arrived, accepted>>
vars == <<text, chunks, phase, apiKey, requestCount, windowStart, now,
          pc, body, reqChunks, calls, values, response, arrived, accepted>>

(* ---------------------------------------------------------------------- *)
(* Constants of route.js, scaled down so that strings stay enumerable.     *)
(* route.js: RATE_LIMIT_WINDOW = 3600000 ms, MAX_REQUESTS = 60,            *)
(* CHUNK_SIZE = 4000, MAX_TOTAL_LENGTH = 50000.  The model keeps their     *)
(* roles and the comparisons made with them; one clock unit stands for     *)
(* RATE_LIMIT_WINDOW milliseconds.                                          *)
(* ---------------------------------------------------------------------- *)
RATE_LIMIT_WINDOW == 1
MAX_REQUESTS == 2
CHUNK_SIZE == 5
MAX_TOTAL_LENGTH == 10

(* Bounds of the model. *)
MaxTextLen == 8      \* longest input of the chunker run
MaxTime == 3         \* the clock stops here
MaxArrivals == 4     \* POST invocations in one behaviour

Alphabet == {"a", ".", " ", "\n"}

(* ---------------------------------------------------------------------- *)
(* Character classes and string helpers                                    *)
(* ---------------------------------------------------------------------- *)
Ch(c) == c[1]
Pos(c) == c[2]

\* \s of the regular expressions and of String.prototype.trim
IsWs(ch) == ch \in {" ", "\n"}

\* the class [.!?]
IsTerm(ch) == ch \in {".", "!", "?"}

\* a plain string as cells, offsets 1..Len
Tag(s) == [i \in 1..Len(s) |-> <<s[i], i>>]

\* a string literal the chunker inserts
Lit(s) == [i \in 1..Len(s) |-> <<s[i], 0>>]

\* the characters of a sequence of cells
Plain(cs) == [i \in 1..Len(cs) |-> Ch(cs[i])]

RECURSIVE TrimLeft(_)
TrimLeft(s) ==
  IF s # <<>> /\ IsWs(Ch(s[1])) THEN TrimLeft(Tail(s)) ELSE s

RECURSIVE TrimRight(_)
TrimRight(s) ==
  IF s # <<>> /\ IsWs(Ch(s[Len(s)])) THEN TrimRight(SubSeq(s, 1, Len(s) - 1)) ELSE s

\* String.prototype.trim
Trim(s) == TrimRight(TrimLeft(s))

\* String.prototype.slice(from, to) with 0-based from, exclusive to
Slice(s, from, to) == SubSeq(s, from + 1, IF to > Len(s) THEN Len(s) ELSE to)

\* last index of the run of cells satisfying the class that starts at i
RECURSIVE RunEnd(_, _, _)
RunEnd(s, i, term) ==
  IF i + 1 <= Len(s) /\ IsTerm(Ch(s[i + 1])) = term THEN RunEnd(s, i + 1, term) ELSE i

RECURSIVE NewlineRunEnd(_, _)
NewlineRunEnd(s, i) ==
  IF i + 1 <= Len(s) /\ Ch(s[i + 1]) = "\n" THEN NewlineRunEnd(s, i + 1) ELSE i

(* ---------------------------------------------------------------------- *)
(* text.split(/\n\n+/)                                                     *)
(* ---------------------------------------------------------------------- *)
RECURSIVE SplitFrom(_, _, _, _)
SplitFrom(s, i, cur, acc) ==
  IF i > Len(s) THEN Append(acc, cur)
  ELSE IF Ch(s[i]) = "\n" /\ NewlineRunEnd(s, i) > i
       THEN SplitFrom(s, NewlineRunEnd(s, i) + 1, <<>>, Append(acc, cur))
       ELSE SplitFrom(s, i + 1, Append(cur, s[i]), acc)

SplitParagraphs(s) == SplitFrom(s, 1, <<>>, <<>>)

(* ---------------------------------------------------------------------- *)
(* paragraph.match(/[^.!?]+[.!?]+/g) || [paragraph]                        *)
(* A match is a maximal run of non-terminators followed by a maximal run   *)
(* of terminators; terminators with no text before them and text with no   *)
(* terminator after it belong to no match.                                  *)
(* ---------------------------------------------------------------------- *)
RECURSIVE MatchFrom(_, _, _)
MatchFrom(p, i, acc) ==
  IF i > Len(p) THEN acc
  ELSE IF IsTerm(Ch(p[i])) THEN MatchFrom(p, i + 1, acc)
  ELSE LET j == RunEnd(p, i, FALSE)
       IN  IF j = Len(p) THEN acc
           ELSE LET k == RunEnd(p, j + 1, TRUE)
                IN  MatchFrom(p, k + 1, Append(acc, SubSeq(p, i, k)))

MatchSentences(p) == MatchFrom(p, 1, <<>>)

Sentences(p) == IF MatchSentences(p) = <<>> THEN <<p>> ELSE MatchSentences(p)

(* ---------------------------------------------------------------------- *)
(* splitIntoChunks                                                         *)
(* ---------------------------------------------------------------------- *)
\* lines 88-90: force-slice one sentence, pushing every piece at once
RECURSIVE SliceSentence(_, _, _)
SliceSentence(sentence, i, out) ==
  IF i < Len(sentence)
  THEN SliceSentence(sentence, i + CHUNK_SIZE,
                     Append(out, Trim(Slice(sentence, i, i + CHUNK_SIZE))))
  ELSE out

\* lines 85-99: one sentence of an oversized paragraph; st = [chunks, cur]
SentenceStep(st, sentence) ==
  IF Len(sentence) > CHUNK_SIZE
  THEN [st EXCEPT !.chunks = SliceSentence(sentence, 0, st.chunks)]
  ELSE IF Len(st.cur) + Len(sentence) > CHUNK_SIZE
       THEN [chunks |-> Append(st.chunks, Trim(st.cur)), cur |-> sentence]
       ELSE [st EXCEPT !.cur = st.cur \o (IF st.cur # <<>> THEN Lit(<<" ">>) ELSE <<>>)
                                       \o sentence]

RECURSIVE SentenceLoop(_, _, _)
SentenceLoop(st, sentences, i) ==
  IF i > Len(sentences) THEN st
  ELSE SentenceLoop(SentenceStep(st, sentences[i]), sentences, i + 1)

\* ParagraphStep with the size test written >= instead of >
ParagraphStepEager(st, paragraph) ==
  IF Len(st.cur) + Len(paragraph) >= CHUNK_SIZE
  THEN LET flushed == IF st.cur # <<>>
                      THEN [chunks |-> Append(st.chunks, Trim(st.cur)), cur |-> <<>>]
                      ELSE st
       IN  IF Len(paragraph) > CHUNK_SIZE
           THEN SentenceLoop(flushed, Sentences(paragraph), 1)
           ELSE [flushed EXCEPT !.cur = paragraph]
  ELSE [st EXCEPT !.cur = st.cur \o (IF st.cur # <<>> THEN Lit(<<"\n", "\n">>) ELSE <<>>)
                                  \o paragraph]

\* lines 73-106: one paragraph; st = [chunks, cur]
ParagraphStep(st, paragraph) ==
  IF Len(st.cur) + Len(paragraph) > CHUNK_SIZE
  THEN LET flushed == IF st.cur # <<>>
                      THEN [chunks |-> Append(st.chunks, Trim(st.cur)), cur |-> <<>>]
                      ELSE st
       IN  IF Len(paragraph) > CHUNK_SIZE
           THEN SentenceLoop(flushed, Sentences(paragraph), 1)
           ELSE [flushed EXCEPT !.cur = paragraph]
  ELSE [st EXCEPT !.cur = st.cur \o (IF st.cur # <<>> THEN Lit(<<"\n", "\n">>) ELSE <<>>)
                                  \o paragraph]

RECURSIVE ParagraphLoop(_, _, _)
ParagraphLoop(st, paragraphs, i) ==
  IF i > Len(paragraphs) THEN st
  ELSE ParagraphLoop(ParagraphStep(st, paragraphs[i]), paragraphs, i + 1)

\* lines 66-114, on cells
splitIntoChunks(s) ==
  LET st == ParagraphLoop([chunks |-> <<>>, cur |-> <<>>], SplitParagraphs(s), 1)
  IN  IF st.cur # <<>> THEN Append(st.chunks, Trim(st.cur)) ELSE st.chunks

(* ---------------------------------------------------------------------- *)
(* Values of the handler                                                   *)
(* ---------------------------------------------------------------------- *)
\* concurrent invocations of POST
Slots == {1, 2}

NoBody == [kind |-> "none", text |-> <<>>]

\* request bodies: unparsable JSON, no text property, and text strings
Blank == <<>>
Spaces == <<" ", "\n">>
OneChunkText == <<"a", ".">>
TwoChunkText == <<"a", "a", "a", "\n", "\n", "b", "b", "b">>
LongText == [i \in 1..(MAX_TOTAL_LENGTH + 1) |-> "a"]

Bodies ==
  {[kind |-> "malformed", text |-> <<>>], [kind |-> "missing", text |-> <<>>]}
  \cup {[kind |-> "text", text |-> t] :
           t \in {Blank, Spaces, OneChunkText, TwoChunkText, LongText}}

\* what response.text() of the generation service may be
Outputs == {<<"a", ".", " ", "b">>, <<"\"", "c", "\"", "\n">>}

NoResponse == [status |-> 0, error |-> "", hasText |-> FALSE,
               refinedText |-> <<>>, refinedChunks |-> <<>>]

\* NextResponse.json({ error }, { status })
ErrorResponse(st, msg) == [status |-> st, error |-> msg, hasText |-> FALSE,
                           refinedText |-> <<>>, refinedChunks |-> <<>>]

(* ---------------------------------------------------------------------- *)
(* The chunker applied to every text up to MaxTextLen                      *)
(* ---------------------------------------------------------------------- *)
Texts == UNION {[1..n -> Alphabet] : n \in 0..MaxTextLen}

HandlerIdle ==
  /\ requestCount = 0
  /\ windowStart = 0
  /\ now = 0
  /\ pc = [r \in Slots |-> "idle"]
  /\ body = [r \in Slots |-> NoBody]
  /\ reqChunks = [r \in Slots |-> <<>>]
  /\ calls = [r \in Slots |-> <<>>]
  /\ values = [r \in Slots |-> <<>>]
  /\ response = [r \in Slots |-> NoResponse]
  /\ arrived = 0
  /\ accepted = 0

ChunkInit ==
  /\ text \in Texts
  /\ chunks = <<>>
  /\ phase = "input"
  /\ apiKey = TRUE
  /\ HandlerIdle

Chunk ==
  /\ phase = "input"
  /\ chunks' = splitIntoChunks(Tag(text))
  /\ phase' = "chunked"
  /\ UNCHANGED <<text, apiKey, limitVars, now, reqVars, histVars>>

ChunkSpec == ChunkInit /\ [][Chunk]_vars

(* ---------------------------------------------------------------------- *)
(* Reassembly, route.js:188-195                                            *)
(* Here the second component of a cell is the index of the refined chunk   *)
(* the character came from (0 for a character the reassembly inserts).     *)
(* ---------------------------------------------------------------------- *)
RECURSIVE WsRunEnd(_, _)
WsRunEnd(s, i) ==
  IF i + 1 <= Len(s) /\ IsWs(Ch(s[i + 1])) THEN WsRunEnd(s, i + 1) ELSE i

\* index of the first '"' at or after i, 0 if there is none
RECURSIVE NextQuote(_, _)
NextQuote(s, i) ==
  IF i > Len(s) THEN 0
  ELSE IF Ch(s[i]) = "\"" THEN i ELSE NextQuote(s, i + 1)

\* Array.prototype.join
RECURSIVE JoinFrom(_, _, _, _)
JoinFrom(parts, sep, i, acc) ==
  IF i > Len(parts) THEN acc
  ELSE JoinFrom(parts, sep, i + 1, (IF i = 1 THEN acc ELSE acc \o Lit(sep)) \o parts[i])

Join(parts, sep) == JoinFrom(parts, sep, 1, <<>>)

\* .replace(/\n{4,}/g, '\n\n\n')
RECURSIVE CollapseFrom(_, _, _)
CollapseFrom(s, i, acc) ==
  IF i > Len(s) THEN acc
  ELSE IF Ch(s[i]) = "\n"
       THEN LET e == NewlineRunEnd(s, i)
            IN  CollapseFrom(s, e + 1,
                  acc \o (IF e - i + 1 >= 4 THEN Lit(<<"\n", "\n", "\n">>)
                                            ELSE SubSeq(s, i, e)))
       ELSE CollapseFrom(s, i + 1, Append(acc, s[i]))

CollapseNewlines(s) == CollapseFrom(s, 1, <<>>)

\* .replace(/([.!?])\s+/g, '$1\n\n')
RECURSIVE BreakFrom(_, _, _)
BreakFrom(s, i, acc) ==
  IF i > Len(s) THEN acc
  ELSE IF IsTerm(Ch(s[i])) /\ i + 1 <= Len(s) /\ IsWs(Ch(s[i + 1]))
       THEN BreakFrom(s, WsRunEnd(s, i + 1) + 1, Append(acc, s[i]) \o Lit(<<"\n", "\n">>))
       ELSE BreakFrom(s, i + 1, Append(acc, s[i]))

BreakAfterSentences(s) == BreakFrom(s, 1, <<>>)

\* .replace(/"([^"]+)"/g, '\n"$1"\n\n')
RECURSIVE QuoteFrom(_, _, _)
QuoteFrom(s, i, acc) ==
  IF i > Len(s) THEN acc
  ELSE LET j == IF Ch(s[i]) = "\"" THEN NextQuote(s, i + 1) ELSE 0
       IN  IF j > i + 1
           THEN QuoteFrom(s, j + 1,
                  acc \o Lit(<<"\n">>) \o SubSeq(s, i, j) \o Lit(<<"\n", "\n">>))
           ELSE QuoteFrom(s, i + 1, Append(acc, s[i]))

QuotesOnOwnLines(s) == QuoteFrom(s, 1, <<>>)

\* the characters of refined chunk i, marked with i
Mark(s, i) == [k \in 1..Len(s) |-> <<s[k], i>>]

\* route.js:188-195
Reassemble(refinedChunks) ==
  LET trimmed == [i \in 1..Len(refinedChunks) |-> Trim(Mark(refinedChunks[i], i))]
      joined == Join(trimmed, <<"\n", "\n", "\n">>)
  IN  Trim(CollapseNewlines(QuotesOnOwnLines(BreakAfterSentences(
             CollapseNewlines(joined)))))

(* ---------------------------------------------------------------------- *)
(* Promises                                                                *)
(* ---------------------------------------------------------------------- *)
PendingCall == [st |-> "pending", out |-> <<>>]
EmptyValue == [set |-> FALSE, v |-> <<>>]

\* Promise.allSettled in the place of Promise.all: never rejected
PromiseAllSettledState(cs) ==
  IF \E i \in 1..Len(cs) : cs[i].st = "pending" THEN "pending" ELSE "fulfilled"

\* Promise.all over the promises cs: rejected with the first rejection,
\* fulfilled once every promise is fulfilled
PromiseAllState(cs) ==
  IF \E i \in 1..Len(cs) : cs[i].st = "rejected" THEN "rejected"
  ELSE IF \A i \in 1..Len(cs) : cs[i].st = "fulfilled" THEN "fulfilled"
  ELSE "pending"

\* results pushed in completion order: x goes to the first free index
ResolveElementPush(vals, i, x) ==
  LET k == CHOOSE j \in 1..Len(vals) :
             ~vals[j].set /\ \A h \in 1..(j - 1) : vals[h].set
  IN  [vals EXCEPT ![k] = [set |-> TRUE, v |-> x]]

\* Promise.all stores the value of the promise at index i at index i
ResolveElement(vals, i, x) == [vals EXCEPT ![i] = [set |-> TRUE, v |-> x]]

Settled(r) == \A i \in 1..Len(calls[r]) : calls[r][i].st # "pending"

(* ---------------------------------------------------------------------- *)
(* POST, route.js:127-215.  One action per stretch of code between awaits  *)
(* and per outcome of that stretch.                                        *)
(* ---------------------------------------------------------------------- *)
\* the reset test written >= instead of >
WindowElapsedInclusive(t, start) == t - start >= RATE_LIMIT_WINDOW

\* route.js:139
WindowElapsed(t, start) == t - start > RATE_LIMIT_WINDOW

\* route.js:139-142: the counter and the window after the reset test
CountAfterReset == IF WindowElapsed(now, windowStart) THEN 0 ELSE requestCount
StartAfterReset == IF WindowElapsed(now, windowStart) THEN now ELSE windowStart

\* route.js:144
OverLimit(count) == count >= MAX_REQUESTS

\* the validation without .trim()
IsBlankTextNoTrim(b) == b.kind = "missing" \/ (b.kind = "text" /\ Len(b.text) = 0)

\* route.js:154
IsBlankText(b) == b.kind = "missing" \/ (b.kind = "text" /\ Len(Trim(Tag(b.text))) = 0)

\* a request comes in on a free invocation
Arrives(r, b) ==
  /\ phase = "off"
  /\ pc[r] = "idle"
  /\ arrived < MaxArrivals
  /\ arrived' = arrived + 1
  /\ body' = [body EXCEPT ![r] = b]

\* route.js:130-136
ConfigError(r, b) ==
  /\ Arrives(r, b)
  /\ ~apiKey
  /\ pc' = [pc EXCEPT ![r] = "done"]
  /\ response' = [response EXCEPT ![r] = ErrorResponse(500, "API configuration error")]
  /\ UNCHANGED <<chunkVars, apiKey, limitVars, now, reqChunks, calls, values, accepted>>

\* route.js:139-149
RateLimited(r, b) ==
  /\ Arrives(r, b)
  /\ apiKey
  /\ OverLimit(CountAfterReset)
  /\ requestCount' = CountAfterReset
  /\ windowStart' = StartAfterReset
  /\ accepted' = IF WindowElapsed(now, windowStart) THEN 0 ELSE accepted
  /\ pc' = [pc EXCEPT ![r] = "done"]
  /\ response' = [response EXCEPT ![r] =
                    ErrorResponse(429, "Rate limit exceeded. Please try again later.")]
  /\ UNCHANGED <<chunkVars, apiKey, now, reqChunks, calls, values>>

\* route.js:139-151, up to await request.json()
Accept(r, b) ==
  /\ Arrives(r, b)
  /\ apiKey
  /\ ~OverLimit(CountAfterReset)
  /\ requestCount' = CountAfterReset
  /\ windowStart' = StartAfterReset
  /\ accepted' = (IF WindowElapsed(now, windowStart) THEN 0 ELSE accepted) + 1
  /\ pc' = [pc EXCEPT ![r] = "json"]
  /\ UNCHANGED <<chunkVars, apiKey, now, reqChunks, calls, values, response>>

\* route.js:151: request.json() rejects, caught at 202-213
BadJson(r) ==
  /\ pc[r] = "json"
  /\ body[r].kind = "malformed"
  /\ pc' = [pc EXCEPT ![r] = "done"]
  /\ response' = [response EXCEPT ![r] =
                    ErrorResponse(500, "Failed to refine text. Please try again.")]
  /\ UNCHANGED <<chunkVars, apiKey, limitVars, now, body, reqChunks, calls, values, histVars>>

\* route.js:154-159
NoText(r) ==
  /\ pc[r] = "json"
  /\ body[r].kind # "malformed"
  /\ IsBlankText(body[r])
  /\ pc' = [pc EXCEPT ![r] = "done"]
  /\ response' = [response EXCEPT ![r] = ErrorResponse(400, "No text provided")]
  /\ UNCHANGED <<chunkVars, apiKey, limitVars, now, body, reqChunks, calls, values, histVars>>

\* route.js:162-167
TooLong(r) ==
  /\ pc[r] = "json"
  /\ body[r].kind = "text"
  /\ ~IsBlankText(body[r])
  /\ Len(body[r].text) > MAX_TOTAL_LENGTH
  /\ pc' = [pc EXCEPT ![r] = "done"]
  /\ response' = [response EXCEPT ![r] = ErrorResponse(400, "Text exceeds maximum length")]
  /\ UNCHANGED <<chunkVars, apiKey, limitVars, now, body, reqChunks, calls, values, histVars>>

\* route.js:170-185: split, then start every processChunk call; each runs
\* up to its first await (model.generateContent is called) before
\* Promise.all is awaited
Dispatch(r) ==
  /\ pc[r] = "json"
  /\ body[r].kind = "text"
  /\ ~IsBlankText(body[r])
  /\ Len(body[r].text) <= MAX_TOTAL_LENGTH
  /\ LET cs == splitIntoChunks(Tag(body[r].text))
     IN  /\ reqChunks' = [reqChunks EXCEPT ![r] = cs]
         /\ calls' = [calls EXCEPT ![r] = [i \in 1..Len(cs) |-> PendingCall]]
         /\ values' = [values EXCEPT ![r] = [i \in 1..Len(cs) |-> EmptyValue]]
  /\ pc' = [pc EXCEPT ![r] = "await"]
  /\ UNCHANGED <<chunkVars, apiKey, limitVars, now, body, response, histVars>>

\* route.js:117-122, 179: the call for chunk i returns text out
CallFulfils(r, i, out) ==
  /\ i \in 1..Len(calls[r])
  /\ calls[r][i].st = "pending"
  /\ calls' = [calls EXCEPT ![r][i] = [st |-> "fulfilled", out |-> out]]
  /\ values' = [values EXCEPT ![r] = ResolveElement(values[r], i, out)]
  /\ UNCHANGED <<chunkVars, apiKey, limitVars, now, pc, body, reqChunks, response, histVars>>

\* route.js:180-183: the call for chunk i throws
CallRejects(r, i) ==
  /\ i \in 1..Len(calls[r])
  /\ calls[r][i].st = "pending"
  /\ calls' = [calls EXCEPT ![r][i] = [st |-> "rejected", out |-> <<>>]]
  /\ UNCHANGED <<chunkVars, apiKey, limitVars, now, pc, body, reqChunks, values,
                 response, histVars>>

\* route.js:176, 188-200: Promise.all fulfilled
Succeed(r) ==
  /\ pc[r] = "await"
  /\ PromiseAllState(calls[r]) = "fulfilled"
  /\ LET refinedChunks == [i \in 1..Len(values[r]) |-> values[r][i].v]
     IN  response' = [response EXCEPT ![r] =
                        [status |-> 200, error |-> "", hasText |-> TRUE,
                         refinedText |-> Reassemble(refinedChunks),
                         refinedChunks |-> refinedChunks]]
  /\ requestCount' = requestCount + Len(reqChunks[r])
  /\ pc' = [pc EXCEPT ![r] = "done"]
  /\ UNCHANGED <<chunkVars, apiKey, windowStart, now, body, reqChunks, calls, values,
                 histVars>>

\* Fail with the counter increment moved to where it also runs on failure
FailCounting(r) ==
  /\ pc[r] = "await"
  /\ PromiseAllState(calls[r]) = "rejected"
  /\ response' = [response EXCEPT ![r] =
                    ErrorResponse(500, "Failed to refine text. Please try again.")]
  /\ requestCount' = requestCount + Len(reqChunks[r])
  /\ pc' = [pc EXCEPT ![r] = "done"]
  /\ UNCHANGED <<chunkVars, apiKey, windowStart, now, body, reqChunks, calls, values,
                 histVars>>

\* route.js:176, 202-213: Promise.all rejected
Fail(r) ==
  /\ pc[r] = "await"
  /\ PromiseAllState(calls[r]) = "rejected"
  /\ response' = [response EXCEPT ![r] =
                    ErrorResponse(500, "Failed to refine text. Please try again.")]
  /\ pc' = [pc EXCEPT ![r] = "done"]
  /\ UNCHANGED <<chunkVars, apiKey, limitVars, now, body, reqChunks, calls, values,
                 histVars>>

\* the response has gone out and no call of the invocation is still running
Release(r) ==
  /\ pc[r] = "done"
  /\ Settled(r)
  /\ pc' = [pc EXCEPT ![r] = "idle"]
  /\ body' = [body EXCEPT ![r] = NoBody]
  /\ reqChunks' = [reqChunks EXCEPT ![r] = <<>>]
  /\ calls' = [calls EXCEPT ![r] = <<>>]
  /\ values' = [values EXCEPT ![r] = <<>>]
  /\ response' = [response EXCEPT ![r] = NoResponse]
  /\ UNCHANGED <<chunkVars, apiKey, limitVars, now, histVars>>

\* Date.now() advances
Tick ==
  /\ phase = "off"
  /\ now < MaxTime
  /\ now' = now + 1
  /\ UNCHANGED <<chunkVars, apiKey, limitVars, reqVars, histVars>>

Init ==
  /\ text = <<>>
  /\ chunks = <<>>
  /\ phase = "off"
  /\ apiKey \in BOOLEAN
  /\ HandlerIdle

Next ==
  \/ Tick
  \/ \E r \in Slots :
       \/ \E b \in Bodies : ConfigError(r, b) \/ RateLimited(r, b) \/ Accept(r, b)
       \/ BadJson(r) \/ NoText(r) \/ TooLong(r) \/ Dispatch(r)
       \/ \E i \in 1..2 : CallRejects(r, i) \/ \E out \in Outputs : CallFulfils(r, i, out)
       \/ Succeed(r) \/ Fail(r) \/ Release(r)

Spec == Init /\ [][Next]_vars

(* ====================================================================== *)
(* Properties of splitIntoChunks, checked under ChunkSpec                  *)
(* ====================================================================== *)
Paragraphs == SplitParagraphs(Tag(text))

\* c is a contiguous piece of s
IsPieceOf(c, s) == \E i \in 0..(Len(s) - Len(c)) : SubSeq(s, i + 1, i + Len(c)) = c

\* c is a piece of one sentence of the input that is longer than CHUNK_SIZE
LongSentencePiece(c) ==
  \E pi \in 1..Len(Paragraphs) :
    LET ss == Sentences(Paragraphs[pi])
    IN  \E si \in 1..Len(ss) : Len(ss[si]) > CHUNK_SIZE /\ IsPieceOf(c, ss[si])

\* C1: every chunk splitIntoChunks returns is at most CHUNK_SIZE characters
\* long, unless it is a piece of a single sentence that is itself longer
\* than CHUNK_SIZE.
C1_ChunkSizeBound ==
  phase = "chunked" =>
    \A k \in 1..Len(chunks) :
      Len(chunks[k]) <= CHUNK_SIZE \/ LongSentencePiece(chunks[k])

\* the input offsets of the characters of chunk k
Offsets(k) == {Pos(chunks[k][i]) : i \in 1..Len(chunks[k])} \ {0}

\* C2: chunks come out in input order: whatever lies in an earlier chunk
\* precedes, in the input, whatever lies in a later chunk.
C2_ChunksInInputOrder ==
  phase = "chunked" =>
    \A j, k \in 1..Len(chunks) :
      j < k => \A a \in Offsets(j) : \A b \in Offsets(k) : a < b

RECURSIVE Concat(_, _)
Concat(ss, i) == IF i > Len(ss) THEN <<>> ELSE ss[i] \o Concat(ss, i + 1)

NotWs(c) == ~IsWs(Ch(c))

\* the offsets of the non-whitespace characters of cs, in the order they occur
InkOffsets(cs) == LET ink == SelectSeq(cs, NotWs) IN [i \in 1..Len(ink) |-> Pos(ink[i])]

\* C3: the chunks, concatenated in order, hold every non-whitespace
\* character of the input exactly once and in the input's order.
C3_ChunksReconstructText ==
  phase = "chunked" => InkOffsets(Concat(chunks, 1)) = InkOffsets(Tag(text))

\* the input is three non-empty paragraphs, each shorter than CHUNK_SIZE
ThreeShortParagraphs ==
  /\ Len(Paragraphs) = 3
  /\ \A i \in 1..3 : Len(Paragraphs[i]) > 0 /\ Len(Paragraphs[i]) < CHUNK_SIZE

ThreeJoined ==
  Trim(Paragraphs[1] \o Lit(<<"\n", "\n">>) \o Paragraphs[2]
         \o Lit(<<"\n", "\n">>) \o Paragraphs[3])

\* C8 as stated: any three paragraphs, each shorter than CHUNK_SIZE, come
\* back as exactly one chunk that is the input with its paragraph breaks.
C8_AnyThreeShortParagraphsOneChunk ==
  (phase = "chunked" /\ ThreeShortParagraphs) =>
    /\ Len(chunks) = 1
    /\ Plain(chunks[1]) = Plain(Trim(Tag(text)))

\* C8, amended: three non-empty paragraphs, each shorter than CHUNK_SIZE, come
\* back as exactly one chunk if and only if their lengths plus the two
\* characters of the first joined break total at most CHUNK_SIZE; that chunk
\* is the three paragraphs joined by "\n\n" and trimmed.
C8_ThreeParagraphsOneChunkWhenTheyFit ==
  (phase = "chunked" /\ ThreeShortParagraphs) =>
    IF Len(Paragraphs[1]) + Len(Paragraphs[2]) + Len(Paragraphs[3]) + 2 <= CHUNK_SIZE
    THEN chunks = <<ThreeJoined>>
    ELSE Len(chunks) > 1

\* three short paragraphs that fit, after a break of more than two newlines
C8_Witness ==
  /\ phase = "chunked"
  /\ ThreeShortParagraphs
  /\ Len(chunks) = 1
  /\ Len(text) > Len(chunks[1])

(* ====================================================================== *)
(* Properties of the POST handler, checked under Spec                      *)
(* ====================================================================== *)
\* the step in which invocation r runs from its entry to its first outcome
Enters(r) == pc[r] = "idle" /\ pc'[r] # "idle"

\* C4: once exactly MAX_REQUESTS requests have passed the rate check in a
\* window, the next request arriving in that window gets 429; and no request
\* gets 429 before MAX_REQUESTS requests have passed the check in the window.
C4_RateLimitCeiling ==
  [][\A r \in Slots :
       Enters(r) =>
         /\ (now - windowStart <= RATE_LIMIT_WINDOW /\ accepted = MAX_REQUESTS)
              => response'[r].status = 429
         /\ response'[r].status = 429 => accepted >= MAX_REQUESTS]_vars

\* C5 as stated (for a process whose API key is set): once RATE_LIMIT_WINDOW
\* has elapsed since windowStart, the next POST resets requestCount to 0, sets
\* windowStart to its own time and is not answered 429.
C5_ResetOnceWindowElapsed ==
  [][\A r \in Slots :
       (Enters(r) /\ apiKey /\ now - windowStart >= RATE_LIMIT_WINDOW) =>
         /\ requestCount' = 0
         /\ windowStart' = now
         /\ response'[r].status # 429]_vars

\* C5, amended: a POST that reaches the rate check (the API key is set)
\* resets requestCount to 0, sets windowStart to its own time and passes the
\* check when more than RATE_LIMIT_WINDOW has elapsed since windowStart,
\* whatever requestCount was; when at most RATE_LIMIT_WINDOW has elapsed it
\* changes neither requestCount nor windowStart.
C5_ResetAfterMoreThanWindow ==
  [][\A r \in Slots :
       (Enters(r) /\ apiKey) =>
         IF now - windowStart > RATE_LIMIT_WINDOW
         THEN /\ requestCount' = 0
              /\ windowStart' = now
              /\ pc'[r] = "json"
              /\ response'[r].status # 429
         ELSE /\ requestCount' = requestCount
              /\ windowStart' = windowStart]_vars

\* a request passed the check in a fresh window while the 429 given in the
\* window before is still held by the other invocation
C5_Witness ==
  /\ windowStart = now
  /\ windowStart > RATE_LIMIT_WINDOW
  /\ requestCount = 0
  /\ \E r, q \in Slots : pc[r] = "json" /\ pc[q] = "done" /\ response[q].status = 429

\* C6: if the call for any chunk fails the response is 500 with an error body
\* and holds nothing of the chunks that succeeded; a 200 response is given
\* only when the call of every chunk succeeded.
C6_AllOrNothing ==
  \A r \in Slots :
    /\ (pc[r] = "done" /\ \E i \in 1..Len(calls[r]) : calls[r][i].st = "rejected") =>
         /\ response[r].status = 500
         /\ response[r].error # ""
         /\ ~response[r].hasText
         /\ response[r].refinedText = <<>>
         /\ response[r].refinedChunks = <<>>
    /\ response[r].status = 200 =>
         /\ Len(calls[r]) >= 1
         /\ \A i \in 1..Len(calls[r]) : calls[r][i].st = "fulfilled"

\* one chunk failed, another succeeded, and the response is the 500
C6_Witness ==
  \E r \in Slots :
    /\ pc[r] = "done"
    /\ response[r].status = 500
    /\ \E i, j \in 1..Len(calls[r]) :
         calls[r][i].st = "rejected" /\ calls[r][j].st = "fulfilled"

\* missing, empty or whitespace-only text
BlankBody(b) ==
  \/ b.kind = "missing"
  \/ b.kind = "text" /\ \A i \in 1..Len(b.text) : b.text[i] \in {" ", "\n"}

\* C7 as stated (for a process whose API key is set): in every state, a POST
\* whose text is missing, empty or whitespace-only is answered 400 and causes
\* no call of the generation service.
C7_BlankTextAlways400 ==
  \A r \in Slots :
    (apiKey /\ pc[r] = "done" /\ BlankBody(body[r])) =>
      /\ response[r].status = 400
      /\ calls[r] = <<>>

\* C7, amended: a POST whose text is missing, empty or whitespace-only never
\* causes a call of the generation service; it is answered 500 when the API
\* key is not set, else 429 when requestCount (after the window reset) is at
\* least MAX_REQUESTS, else 400 "No text provided".
C7_BlankTextNeverCallsService ==
  [][\A r \in Slots :
       /\ (Enters(r) /\ BlankBody(body'[r])) =>
            IF ~apiKey
            THEN response'[r] = ErrorResponse(500, "API configuration error")
            ELSE IF (IF now - windowStart > RATE_LIMIT_WINDOW THEN 0 ELSE requestCount)
                      >= MAX_REQUESTS
                 THEN response'[r].status = 429
                 ELSE pc'[r] = "json"
       /\ (pc[r] = "json" /\ pc'[r] # "json" /\ BlankBody(body[r])) =>
            /\ pc'[r] = "done"
            /\ response'[r] = ErrorResponse(400, "No text provided")
       /\ BlankBody(body'[r]) => calls'[r] = <<>>]_vars

\* a whitespace-only text was answered 400
C7_Witness ==
  \E r \in Slots :
    /\ pc[r] = "done"
    /\ body[r] = [kind |-> "text", text |-> Spaces]
    /\ response[r].status = 400
    /\ calls[r] = <<>>

\* the non-whitespace cells of cs
Ink(cs) == SelectSeq(cs, NotWs)

RECURSIVE InkOfOutputs(_, _)
InkOfOutputs(cs, i) ==
  IF i > Len(cs) THEN <<>> ELSE Ink(Mark(cs[i].out, i)) \o InkOfOutputs(cs, i + 1)

\* C9: every call of a request is started before a result is awaited, and
\* whatever the order of completion the i-th refined chunk is what the call
\* for the i-th chunk returned, so that refinedText holds the refined pieces
\* in the order of their source chunks.
C9_PositionalPairing ==
  \A r \in Slots :
    /\ pc[r] = "await" => Len(reqChunks[r]) >= 1 /\ Len(calls[r]) = Len(reqChunks[r])
    /\ response[r].status = 200 =>
         /\ Len(response[r].refinedChunks) = Len(reqChunks[r])
         /\ \A i \in 1..Len(reqChunks[r]) : response[r].refinedChunks[i] = calls[r][i].out
         /\ Ink(response[r].refinedText) = InkOfOutputs(calls[r], 1)

\* a 200 built from two chunks whose calls returned different texts
C9_Witness ==
  \E r \in Slots :
    /\ response[r].status = 200
    /\ Len(reqChunks[r]) = 2
    /\ calls[r][1].out # calls[r][2].out

\* C10: requestCount grows only in the step that returns 200, by the number
\* of chunks of that request and with every call of it completed; a request
\* ending in 400, 429 or 500 never makes it grow; its only other change is
\* the reset to 0 by a request arriving after the window has elapsed.
C10_CounterFrame ==
  [][/\ requestCount' > requestCount =>
          \E r \in Slots :
            /\ pc[r] = "await" /\ pc'[r] = "done"
            /\ response'[r].status = 200
            /\ requestCount' = requestCount + Len(reqChunks[r])
            /\ Len(calls[r]) = Len(reqChunks[r])
            /\ \A i \in 1..Len(calls[r]) : calls[r][i].st = "fulfilled"
     /\ requestCount' < requestCount =>
          /\ requestCount' = 0
          /\ now - windowStart > RATE_LIMIT_WINDOW
          /\ \E r \in Slots : Enters(r)
     /\ \A r \in Slots :
          (pc[r] # "done" /\ pc'[r] = "done") =>
            IF response'[r].status = 200
            THEN requestCount' = requestCount + Len(reqChunks[r])
            ELSE /\ response'[r].status \in {400, 429, 500}
                 /\ requestCount' <= requestCount]_vars

\* a request ended 500 after one of its calls had succeeded, and the counter
\* holds only the chunks of an earlier 200
C10_Witness ==
  /\ requestCount > 0
  /\ \E r \in Slots :
       /\ pc[r] = "done"
       /\ response[r].status = 500
       /\ \E i \in 1..Len(calls[r]) : calls[r][i].st = "fulfilled"

====
